---------------------------- MODULE Spec2Model ----------------------------
(***************************************************************************)
(* The report-generation pipeline of the-hf-daily-briefer:                 *)
(*   services/huggingface.py  fetch_trending_item, fetch_readme            *)
(*   services/llm.py          generate_report, _call_and_parse             *)
(*   cli.py                   generate_report_command                      *)
(*                                                                         *)
(* Text is modelled as a sequence of chunks.  A chunk is a piece of text   *)
(* that the code never looks inside: the triple-backtick marker, a line    *)
(* break, a blank, a word, or a piece of the text of a JSON document.      *)
(* A README is modelled run-length encoded (a sequence of runs of one      *)
(* character), so that texts around the 20,000 character cap stay small.   *)
(***************************************************************************)
EXTENDS Integers, Sequences, FiniteSets, TLC

VARIABLES
    pc,          \* position of the running operation
    reports,     \* rows of the reports table, in insertion order
    used_names,  \* the item_name set read at the start of a run
    registry,    \* what the registry answers at limit 20 and at limit 50
    queries,     \* the limits fetch_trending_item queried, in order
    metadata,    \* the selected item's metadata, or NoItem
    content,     \* the README file as downloaded
    readme,      \* what fetch_readme returned
    payload,     \* the text an LLM response was built around
    llm_script,  \* what the LLM endpoint answers, in call order
    messages,    \* the roles of the chat messages built so far
    calls,       \* number of chat-completion calls made
    result,      \* what _call_and_parse / generate_report returned
    error        \* the exception that ended the operation, or "none"

vars == << pc, reports, used_names, registry, queries, metadata, content,
           readme, payload, llm_script, messages, calls, result, error >>

---------------------------------------------------------------------------
(* Bounds of the model.                                                    *)

MaxIdeas == 6
MaxList == 2
MaxRuns == 2

---------------------------------------------------------------------------
(* JSON values, as json.loads returns them.                                *)

\* A scalar or an element of the ideas array: t is its Python type, v the
\* text str() gives for it, f its items when it is a dict (key/value pairs).
Scalar(t, v) == [t |-> t, v |-> v, f |-> {}]
PyNone == Scalar("null", "None")
PyDict(pairs) == [t |-> "dict", v |-> "repr(dict)", f |-> pairs]
Pair(k, val) == [k |-> k, val |-> val]

\* Python truthiness of a value returned by dict.get.
Falsy == { PyNone, Scalar("str", ""), Scalar("int", "0"), Scalar("bool", "False") }
Truthy(x) == x \notin Falsy

\* dict.get(key): the value, or None when the key is absent.
dict_get(idea, key) ==
    IF \E p \in idea.f : p.k = key
    THEN (CHOOSE p \in idea.f : p.k = key).val
    ELSE PyNone

\* str(x): a plain string stays what it is, anything else becomes its text.
py_str(x) == Scalar("str", x.v)

\* A parsed document.  kind is its Python type; has says which of "title",
\* "summary", "ideas" are keys of it (dict), elements of it (list) or
\* substrings of it (str); title stands for the value under "title";
\* ideas is the value under "ideas".
RequiredKeys == {"title", "summary", "ideas"}
NoIdeas == [kind |-> "absent", items |-> << >>]
JDoc(kind, has, title, ideas) ==
    [kind |-> kind, has |-> has, title |-> title, ideas |-> ideas]
\* no document
NoJ == [kind |-> "none"]

---------------------------------------------------------------------------
(* Text as chunks.                                                         *)

FENCE == "FENCE"    \* the triple-backtick marker
NL == "NL"          \* a line break
SP == "SP"          \* a blank
Chunk(c) == [c |-> c, j |-> NoJ]
Piece(c, v) == [c |-> c, j |-> v]
Whitespace == { Chunk(NL), Chunk(SP) }

RECURSIVE lstrip(_)
lstrip(t) ==
    IF Len(t) > 0 /\ t[1] \in Whitespace THEN lstrip(Tail(t)) ELSE t

RECURSIVE rstrip(_)
rstrip(t) ==
    IF Len(t) > 0 /\ t[Len(t)] \in Whitespace
    THEN rstrip(SubSeq(t, 1, Len(t) - 1))
    ELSE t

\* str.strip()
strip(t) == rstrip(lstrip(t))

\* str.startswith("```")
startswith_fence(t) == Len(t) > 0 /\ t[1] = Chunk(FENCE)

\* index of the first / last chunk c of t, 0 when there is none
find(t, c) ==
    IF \E i \in 1..Len(t) : t[i] = c
    THEN CHOOSE i \in 1..Len(t) : t[i] = c /\ \A k \in 1..(i - 1) : t[k] # c
    ELSE 0
rfind(t, c) ==
    IF \E i \in 1..Len(t) : t[i] = c
    THEN CHOOSE i \in 1..Len(t) : t[i] = c /\ \A k \in (i + 1)..Len(t) : t[k] # c
    ELSE 0

\* json.loads: leading and trailing whitespace is skipped; the text parses
\* when it is the whole text of one document: in one piece (J), in two
\* halves cut between tokens with at most one whitespace between them
\* (JA, JB), or in two halves cut inside a string literal around a
\* triple-backtick that the string contains (SA FENCE SB).
json_loads(t) ==
    LET s == strip(t) IN
    IF Len(s) = 1 /\ s[1].c = "J"
        THEN [ok |-> TRUE, value |-> s[1].j]
    ELSE IF Len(s) = 2 /\ s[1].c = "JA" /\ s[2] = Piece("JB", s[1].j)
        THEN [ok |-> TRUE, value |-> s[1].j]
    ELSE IF Len(s) = 3 /\ s[1].c = "JA" /\ s[2] \in Whitespace
                       /\ s[3] = Piece("JB", s[1].j)
        THEN [ok |-> TRUE, value |-> s[1].j]
    ELSE IF Len(s) = 3 /\ s[1].c = "SA" /\ s[2] = Chunk(FENCE)
                       /\ s[3] = Piece("SB", s[1].j)
        THEN [ok |-> TRUE, value |-> s[1].j]
    ELSE [ok |-> FALSE, value |-> NoJ]

---------------------------------------------------------------------------
(* services/llm.py: _call_and_parse                                        *)

NumIdeas == 5
CallResult(outcome, value) == [outcome |-> outcome, value |-> value]
Unset == CallResult("unset", NoJ)

\* lines 136-139: a text that starts with the marker loses its first line
\* and what follows its last marker.  split("\n", 1)[1] raises IndexError
\* when the text holds no line break.
strip_fences(raw_text) ==
    IF startswith_fence(raw_text)
    THEN IF find(raw_text, Chunk(NL)) = 0
         THEN [raised |-> "IndexError", text |-> << >>]
         ELSE LET rest == SubSeq(raw_text, find(raw_text, Chunk(NL)) + 1, Len(raw_text))
                  last == rfind(rest, Chunk(FENCE))
                  head == IF last = 0 THEN rest ELSE SubSeq(rest, 1, last - 1)
              IN  [raised |-> "none", text |-> strip(head)]
    ELSE [raised |-> "none", text |-> raw_text]

\* lines 161-173: a dict gives the first truthy of its description, name,
\* idea, title, else its str(); anything else gives its str().
normalize_idea_name_first(idea) ==
    IF idea.t = "dict"
    THEN IF Truthy(dict_get(idea, "name")) THEN dict_get(idea, "name")
         ELSE IF Truthy(dict_get(idea, "description")) THEN dict_get(idea, "description")
         ELSE IF Truthy(dict_get(idea, "idea")) THEN dict_get(idea, "idea")
         ELSE IF Truthy(dict_get(idea, "title")) THEN dict_get(idea, "title")
         ELSE py_str(idea)
    ELSE py_str(idea)

normalize_idea(idea) ==
    IF idea.t = "dict"
    THEN IF Truthy(dict_get(idea, "description")) THEN dict_get(idea, "description")
         ELSE IF Truthy(dict_get(idea, "name")) THEN dict_get(idea, "name")
         ELSE IF Truthy(dict_get(idea, "idea")) THEN dict_get(idea, "idea")
         ELSE IF Truthy(dict_get(idea, "title")) THEN dict_get(idea, "title")
         ELSE py_str(idea)
    ELSE py_str(idea)

normalize_ideas(items) == [i \in 1..Len(items) |-> normalize_idea(items[i])]

\* The types whose "in" operator takes a string: dict (keys), list
\* (elements), str (substrings).  On the others "in" raises TypeError.
SupportsIn == {"dict", "list", "str"}

\* lines 152-176, on the parsed document.
validate(r) ==
    IF r.kind \notin SupportsIn THEN CallResult("TypeError", NoJ)
    ELSE IF "title" \notin r.has \/ "summary" \notin r.has THEN CallResult("None", NoJ)
    ELSE IF "ideas" \notin r.has THEN CallResult("None", NoJ)
    \* result["ideas"]: only a dict is indexed by a string
    ELSE IF r.kind # "dict" THEN CallResult("TypeError", NoJ)
    ELSE IF r.ideas.kind # "list" THEN CallResult("None", NoJ)
    ELSE IF Len(r.ideas.items) # NumIdeas THEN CallResult("None", NoJ)
    ELSE CallResult("draft",
            [r EXCEPT !.ideas = [kind |-> "list",
                                 items |-> normalize_ideas(r.ideas.items)]])

\* What client.chat.completions.create gives: the text of the assistant
\* message, or a failure of the call.
Answer(text) == [ok |-> TRUE, text |-> text]
TransportFailure == [ok |-> FALSE, text |-> << >>]

\* lines 118-176: the call raises, or its text is stripped, unfenced,
\* parsed and validated.
_call_and_parse(answer) ==
    IF ~answer.ok THEN CallResult("TransportError", NoJ)
    ELSE LET s == strip_fences(strip(answer.text)) IN
         IF s.raised # "none" THEN CallResult(s.raised, NoJ)
         ELSE IF ~json_loads(s.text).ok THEN CallResult("None", NoJ)
         ELSE validate(json_loads(s.text).value)

---------------------------------------------------------------------------
(* The response texts the model draws from.                                *)

PlainIdea == Scalar("str", "an idea")
DescVals ==
    { Scalar("str", "a description"), Scalar("str", ""), PyNone,
      Scalar("int", "0"), Scalar("bool", "False"), Scalar("int", "7") }
OtherFields ==
    { {},
      { Pair("name", Scalar("str", "a name")) },
      { Pair("idea", Scalar("str", "an idea text")) },
      { Pair("title", Scalar("str", "a title")) },
      { Pair("name", Scalar("str", "")), Pair("idea", Scalar("str", "an idea text")) },
      { Pair("name", PyNone), Pair("title", Scalar("str", "a title")) },
      { Pair("name", Scalar("str", "a name")), Pair("idea", Scalar("str", "an idea text")),
        Pair("title", Scalar("str", "a title")) } }
DictIdeas ==
    { PyDict(d \cup o) :
        d \in {{}} \cup { { Pair("description", v) } : v \in DescVals },
        o \in OtherFields }
IdeaElems == { PlainIdea, Scalar("str", ""), Scalar("int", "7") } \cup DictIdeas

\* n plain ideas / n ideas of which the p-th is e
Fill(n) == [i \in 1..n |-> PlainIdea]
FillWith(n, p, e) == [i \in 1..n |-> IF i = p THEN e ELSE PlainIdea]
IdeasLists ==
    { Fill(n) : n \in 0..MaxIdeas }
    \cup UNION { { FillWith(n, p, e) : p \in 1..n, e \in IdeaElems } : n \in 1..MaxIdeas }

ListOf(items) == [kind |-> "list", items |-> items]
NotAList == { [kind |-> k, items |-> << >>] : k \in {"str", "int", "dict", "null"} }

\* Objects with the three keys and every ideas value; objects with a key
\* missing; and the documents that are no object.
FullObjects ==
    { JDoc("dict", RequiredKeys, "T1", i) : i \in { ListOf(l) : l \in IdeasLists } \cup NotAList }
    \cup { JDoc("dict", RequiredKeys, "T2", ListOf(Fill(NumIdeas))) }
PartialObjects ==
    { JDoc("dict", h, IF "title" \in h THEN "T1" ELSE "",
           IF "ideas" \in h THEN ListOf(Fill(NumIdeas)) ELSE NoIdeas) :
        h \in (SUBSET RequiredKeys) \ {RequiredKeys} }
NonObjects ==
    { JDoc(k, {}, "", NoIdeas) : k \in {"int", "float", "bool", "null"} }
    \cup { JDoc(k, h, "", NoIdeas) :
             k \in {"str", "list"},
             h \in { {}, {"title"}, {"title", "summary"}, RequiredKeys } }
Docs == FullObjects \cup PartialObjects \cup NonObjects

\* The texts of a document: on one line; on two lines; with a
\* triple-backtick inside one of its strings.
JsonTexts(v) ==
    { << Piece("J", v) >>, << Piece("JA", v), Chunk(NL), Piece("JB", v) >> }
    \cup IF v.kind \in SupportsIn
         THEN { << Piece("SA", v), Chunk(FENCE), Piece("SB", v) >> }
         ELSE {}
\* Texts that are no JSON: nothing, prose, a document cut short.
NonJsonTexts ==
    { << >>, << Chunk("prose") >>,
      << Piece("JA", JDoc("dict", RequiredKeys, "T1", ListOf(Fill(NumIdeas)))) >> }
Payloads == UNION { JsonTexts(v) : v \in Docs } \cup NonJsonTexts

F == << Chunk(FENCE) >>
TAG == << Chunk("json") >>
Wrappers ==
    { "bare", "padded", "fence_tag", "fence", "fence_tight", "fence_no_break",
      "fence_tag_no_break", "fence_open_only", "fence_padded", "prose_fence",
      "fence_prose" }
Wrap(w, body) ==
    CASE w = "bare"               -> body
      [] w = "padded"             -> << Chunk(NL) >> \o body \o << Chunk(SP) >>
      [] w = "fence_tag"          -> F \o TAG \o << Chunk(NL) >> \o body \o << Chunk(NL) >> \o F
      [] w = "fence"              -> F \o << Chunk(NL) >> \o body \o << Chunk(NL) >> \o F
      [] w = "fence_tight"        -> F \o TAG \o << Chunk(NL) >> \o body \o F
      [] w = "fence_no_break"     -> F \o body \o F
      [] w = "fence_tag_no_break" -> F \o TAG \o << Chunk(SP) >> \o body \o F
      [] w = "fence_open_only"    -> F \o TAG \o << Chunk(NL) >> \o body
      [] w = "fence_padded"       -> << Chunk(SP) >> \o F \o TAG \o << Chunk(NL) >> \o body
                                     \o << Chunk(NL) >> \o F \o << Chunk(NL) >>
      [] w = "prose_fence"        -> << Chunk("prose"), Chunk(NL) >> \o F \o << Chunk(NL) >>
                                     \o body \o << Chunk(NL) >> \o F
      [] w = "fence_prose"        -> F \o TAG \o << Chunk(NL) >> \o body \o << Chunk(NL) >> \o F
                                     \o << Chunk(NL), Chunk("prose") >>
Responses == { Wrap(w, body) : w \in Wrappers, body \in Payloads }

---------------------------------------------------------------------------
(* Values of the variables an operation does not use.                      *)

NoItem == [id |-> "", type |-> "none"]
NoAnswer == [ok |-> FALSE, models |-> << >>, datasets |-> << >>]
NoText == << >>
NoReadme == [present |-> FALSE, text |-> << >>]

---------------------------------------------------------------------------
(* _call_and_parse as a function of the response text.                     *)

InitParse ==
    /\ pc = "parse"
    /\ payload \in Payloads
    /\ llm_script \in { << Answer(Wrap(w, payload)) >> : w \in Wrappers }
               \cup { << TransportFailure >> }
    /\ messages = << "system", "user" >>
    /\ reports = << >> /\ used_names = {} /\ registry = << >> /\ queries = << >>
    /\ metadata = NoItem /\ content = NoReadme /\ readme = NoReadme
    /\ calls = 0 /\ result = Unset /\ error = "none"

CallAndParse ==
    /\ pc = "parse"
    /\ calls' = calls + 1
    /\ result' = _call_and_parse(llm_script[calls + 1])
    /\ error' = IF result'.outcome \in {"draft", "None"} THEN "none" ELSE result'.outcome
    /\ pc' = "parsed"
    /\ UNCHANGED << reports, used_names, registry, queries, metadata, content,
                    readme, payload, llm_script, messages >>

NextParse == CallAndParse
SpecParse == InitParse /\ [][NextParse]_vars

---------------------------------------------------------------------------
(* services/huggingface.py: fetch_readme                                   *)

MAX_README_LENGTH == 20000

\* A text as runs of one character: << [ch |-> "x", n |-> 3] >> is "xxx".
\* Adjacent runs hold different characters.
Run(ch, n) == [ch |-> ch, n |-> n]

RECURSIVE rle_len(_)
rle_len(t) == IF t = << >> THEN 0 ELSE t[1].n + rle_len(Tail(t))

\* content[:k]
RECURSIVE rle_take(_, _)
rle_take(t, k) ==
    IF k <= 0 \/ t = << >> THEN << >>
    ELSE IF t[1].n >= k THEN << Run(t[1].ch, k) >>
    ELSE << t[1] >> \o rle_take(Tail(t), k - t[1].n)

\* a + b
rle_concat(a, b) ==
    IF a = << >> THEN b
    ELSE IF b = << >> THEN a
    ELSE IF a[Len(a)].ch = b[1].ch
         THEN SubSeq(a, 1, Len(a) - 1)
              \o << Run(b[1].ch, a[Len(a)].n + b[1].n) >> \o Tail(b)
         ELSE a \o b

\* "\n\n[... truncated ...]": two line breaks, then the bracketed words
\* (one chunk of the model's alphabet).
TruncationMarker == << Run("NL", 2), Run("[... truncated ...]", 1) >>

\* lines 91-114.  download is what hf_hub_download and the read give: the
\* text, or nothing when either raised.
fetch_readme_ge(download) ==
    IF ~download.present THEN NoReadme
    ELSE IF rle_len(download.text) >= MAX_README_LENGTH
         THEN [present |-> TRUE,
               text |-> rle_concat(rle_take(download.text, MAX_README_LENGTH),
                                   TruncationMarker)]
         ELSE download

fetch_readme(download) ==
    IF ~download.present THEN NoReadme
    ELSE IF rle_len(download.text) > MAX_README_LENGTH
         THEN [present |-> TRUE,
               text |-> rle_concat(rle_take(download.text, MAX_README_LENGTH),
                                   TruncationMarker)]
         ELSE download

\* The README files the model draws from: up to MaxRuns runs, of lengths
\* around the cap.
ReadmeChars == {"x", "NL"}
RunLens ==
    { 1, 2, MAX_README_LENGTH - 2, MAX_README_LENGTH - 1, MAX_README_LENGTH,
      MAX_README_LENGTH + 1 }
Runs == { Run(ch, n) : ch \in ReadmeChars, n \in RunLens }
RunSeqs ==
    UNION { { t \in [1..k -> Runs] : \A i \in 1..(k - 1) : t[i].ch # t[i + 1].ch } :
            k \in 0..MaxRuns }
Downloads == { NoReadme } \cup { [present |-> TRUE, text |-> t] : t \in RunSeqs }

InitReadme ==
    /\ pc = "readme"
    /\ content \in Downloads
    /\ metadata \in { [id |-> "a", type |-> ty] : ty \in {"model", "dataset"} }
    /\ reports = << >> /\ used_names = {} /\ registry = << >> /\ queries = << >>
    /\ readme = NoReadme /\ payload = NoText /\ llm_script = << >>
    /\ messages = << >> /\ calls = 0 /\ result = Unset /\ error = "none"

FetchReadme ==
    /\ pc = "readme"
    /\ readme' = fetch_readme(content)
    /\ pc' = "fetched"
    /\ UNCHANGED << reports, used_names, registry, queries, metadata, content,
                    payload, llm_script, messages, calls, result, error >>

NextReadme == FetchReadme
SpecReadme == InitReadme /\ [][NextReadme]_vars

---------------------------------------------------------------------------
(* services/huggingface.py: fetch_trending_item                            *)

Ids == {"a", "b", "c"}

\* line 31: the limits tried, in order
Limits == << 20, 50 >>

\* What api.list_models / api.list_datasets give at a limit: at most limit
\* items each, no id twice in a list; or a failure of the call.
IdLists ==
    UNION { { l \in [1..k -> Ids] : \A i, j \in 1..k : i # j => l[i] # l[j] } :
            k \in 0..MaxList }
Answers(limit) ==
    { NoAnswer }
    \cup { [ok |-> TRUE, models |-> m, datasets |-> d] :
             m \in { l \in IdLists : Len(l) <= limit },
             d \in { l \in IdLists : Len(l) <= limit } }

\* lines 54-75: the fields of the selected item the pipeline reads
_extract_metadata(id, item_type) == [id |-> id, type |-> item_type]

\* line 39
pool_of(answer) ==
    [i \in 1..Len(answer.models) |-> _extract_metadata(answer.models[i], "model")]
    \o [i \in 1..Len(answer.datasets) |-> _extract_metadata(answer.datasets[i], "dataset")]

\* line 42
available_unfiltered(pool, used) == pool
available(pool, used) == SelectSeq(pool, LAMBDA item : item.id \notin used)

SelectOutcome(err, asked, item) == [error |-> err, queries |-> asked, metadata |-> item]

\* lines 31-51, from the k-th limit on: the outcomes random.choice allows.
RECURSIVE try_limits(_, _, _, _)
try_limits(k, used, answers, asked) ==
    IF k > Len(Limits)
    THEN { SelectOutcome("RuntimeError", asked, NoItem) }
    ELSE IF ~answers[k].ok
    THEN { SelectOutcome("TransportError", Append(asked, Limits[k]), NoItem) }
    ELSE LET av == available(pool_of(answers[k]), used) IN
         IF av # << >>
         THEN { SelectOutcome("none", Append(asked, Limits[k]), av[i]) : i \in 1..Len(av) }
         ELSE try_limits(k + 1, used, answers, Append(asked, Limits[k]))

\* lines 12-51
fetch_trending_item_no_widen(used, answers) ==
    IF ~answers[1].ok
    THEN { SelectOutcome("TransportError", << Limits[1] >>, NoItem) }
    ELSE LET av == available(pool_of(answers[1]), used) IN
         IF av # << >>
         THEN { SelectOutcome("none", << Limits[1] >>, av[i]) : i \in 1..Len(av) }
         ELSE { SelectOutcome("RuntimeError", << Limits[1] >>, NoItem) }

fetch_trending_item_fallback(used, answers) ==
    { IF o.error = "RuntimeError" /\ pool_of(answers[Len(Limits)]) # << >>
      THEN SelectOutcome("none", o.queries, pool_of(answers[Len(Limits)])[1])
      ELSE o : o \in try_limits(1, used, answers, << >>) }

fetch_trending_item(used, answers) == try_limits(1, used, answers, << >>)

InitSelect ==
    /\ pc = "select"
    /\ used_names \in SUBSET Ids
    /\ registry \in { << a20, a50 >> : a20 \in Answers(Limits[1]), a50 \in Answers(Limits[2]) }
    /\ reports = << >> /\ queries = << >> /\ metadata = NoItem
    /\ content = NoReadme /\ readme = NoReadme /\ payload = NoText
    /\ llm_script = << >> /\ messages = << >>
    /\ calls = 0 /\ result = Unset /\ error = "none"

FetchTrendingItem ==
    /\ pc = "select"
    /\ \E o \in fetch_trending_item(used_names, registry) :
        /\ queries' = o.queries
        /\ metadata' = o.metadata
        /\ error' = o.error
    /\ pc' = "selected"
    /\ UNCHANGED << reports, used_names, registry, content, readme, payload,
                    llm_script, messages, calls, result >>

NextSelect == FetchTrendingItem
SpecSelect == InitSelect /\ [][NextSelect]_vars

---------------------------------------------------------------------------
(* services/llm.py: generate_report, and cli.py: generate_report_command   *)

ValidDoc(title) == JDoc("dict", RequiredKeys, title, ListOf(Fill(NumIdeas)))

\* What the LLM endpoint may answer in a pipeline run.
LLMAnswers ==
    { TransportFailure,
      Answer(Wrap("bare", << Piece("J", ValidDoc("T1")) >>)),
      Answer(Wrap("fence_tag", << Piece("J", ValidDoc("T2")) >>)),
      Answer(Wrap("bare", << Chunk("prose") >>)),
      Answer(Wrap("fence_no_break", << Chunk("prose") >>)),
      Answer(Wrap("bare", << Piece("J", JDoc("dict", {"summary", "ideas"}, "",
                                           ListOf(Fill(NumIdeas)))) >>)),
      Answer(Wrap("bare", << Piece("J", JDoc("dict", RequiredKeys, "T1",
                                           ListOf(Fill(NumIdeas - 1)))) >>)),
      Answer(Wrap("fence", << Piece("J", JDoc("dict", RequiredKeys, "T1",
                                            [kind |-> "str", items |-> << >>])) >>)),
      Answer(Wrap("bare", << Piece("J", JDoc("null", {}, "", NoIdeas)) >>)) }
LLMScripts == { << a1, a2 >> : a1 \in LLMAnswers, a2 \in LLMAnswers }

\* The README downloads of a pipeline run: none, a short one, a long one.
PipelineDownloads ==
    { NoReadme,
      [present |-> TRUE, text |-> << Run("x", 2) >>],
      [present |-> TRUE, text |-> << Run("x", MAX_README_LENGTH + 1) >>] }

\* A row of the reports table (models.py): item_name and item_type; the
\* other columns do not enter the selection.
Row(item) == [item_name |-> item.id, item_type |-> item.type]

\* cli.py lines 27-29: the stored item_name values
stored_names_none(rows) == {}
stored_names(rows) == { rows[i].item_name : i \in 1..Len(rows) }

\* cli.py lines 20-31: a run starts (the process of the previous run has
\* exited) and reads the item names already stored.
ReadUsedNames ==
    /\ pc \in {"idle", "saved", "failed"}
    /\ used_names' = stored_names(reports)
    /\ pc' = "select"
    /\ queries' = << >> /\ metadata' = NoItem /\ readme' = NoReadme
    /\ llm_script' = << >> /\ messages' = << >> /\ calls' = 0
    /\ result' = Unset /\ error' = "none"
    /\ UNCHANGED << reports, registry, content, payload >>

\* cli.py lines 32-36 (and 82-84 when fetch_trending_item raises).  The
\* registry answers at limit 50 only when it is asked: when the answer at
\* limit 20 left nothing unused.
SelectItem ==
    /\ pc = "select"
    /\ \E a20 \in Answers(Limits[1]) :
         \E a50 \in IF a20.ok /\ available(pool_of(a20), used_names) = << >>
                    THEN Answers(Limits[2]) ELSE { NoAnswer } :
         \E o \in fetch_trending_item(used_names, << a20, a50 >>) :
            /\ queries' = o.queries
            /\ metadata' = o.metadata
            /\ error' = o.error
            /\ pc' = IF o.error = "none" THEN "readme" ELSE "failed"
    /\ UNCHANGED << reports, used_names, registry, content, readme, payload,
                    llm_script, messages, calls, result >>

\* cli.py lines 38-52: the README is fetched; failing to is no error.
AttachReadme ==
    /\ pc = "readme"
    /\ \E d \in PipelineDownloads : readme' = fetch_readme(d)
    /\ pc' = "prompt"
    /\ UNCHANGED << reports, used_names, registry, queries, metadata, content,
                    payload, llm_script, messages, calls, result, error >>

\* llm.py lines 66-88: the system and the user message are built.  The
\* answers the endpoint will give are fixed here.
PreparePrompt ==
    /\ pc = "prompt"
    /\ messages' = << "system", "user" >>
    /\ llm_script' \in LLMScripts
    /\ pc' = "attempt1"
    /\ UNCHANGED << reports, used_names, registry, queries, metadata, content,
                    readme, payload, calls, result, error >>

\* llm.py lines 90-107: attempt 1; a draft is returned, None appends the
\* nudge and goes on to attempt 2, an exception leaves generate_report.
Attempt1 ==
    /\ pc = "attempt1"
    /\ calls' = calls + 1
    /\ LET r == _call_and_parse(llm_script[calls + 1]) IN
        /\ result' = IF r.outcome = "draft" THEN r ELSE Unset
        /\ error' = IF r.outcome \in {"draft", "None"} THEN "none" ELSE r.outcome
        /\ messages' = IF r.outcome = "None" THEN Append(messages, "user") ELSE messages
        /\ pc' = CASE r.outcome = "draft" -> "save"
                   [] r.outcome = "None"  -> "attempt2"
                   [] OTHER               -> "failed"
    /\ UNCHANGED << reports, used_names, registry, queries, metadata, content,
                    readme, payload, llm_script >>

\* llm.py lines 109-115: attempt 2; None raises ValueError.
Attempt2 ==
    /\ pc = "attempt2"
    /\ calls' = calls + 1
    /\ LET r == _call_and_parse(llm_script[calls + 1]) IN
        /\ result' = IF r.outcome = "draft" THEN r ELSE Unset
        /\ error' = CASE r.outcome = "draft" -> "none"
                      [] r.outcome = "None"  -> "ValueError"
                      [] OTHER               -> r.outcome
        /\ pc' = IF r.outcome = "draft" THEN "save" ELSE "failed"
    /\ UNCHANGED << reports, used_names, registry, queries, metadata, content,
                    readme, payload, llm_script, messages >>

\* cli.py lines 62-80: the report is added and committed.
SaveReport ==
    /\ pc = "save"
    /\ reports' = Append(reports, Row(metadata))
    /\ pc' = "saved"
    /\ UNCHANGED << used_names, registry, queries, metadata, content, readme,
                    payload, llm_script, messages, calls, result, error >>

Init ==
    /\ pc = "idle"
    /\ reports = << >> /\ used_names = {} /\ registry = << >> /\ queries = << >>
    /\ metadata = NoItem /\ content = NoReadme /\ readme = NoReadme
    /\ payload = NoText /\ llm_script = << >> /\ messages = << >>
    /\ calls = 0 /\ result = Unset /\ error = "none"

Next ==
    \/ ReadUsedNames
    \/ SelectItem
    \/ AttachReadme
    \/ PreparePrompt
    \/ Attempt1
    \/ Attempt2
    \/ SaveReport

Spec == Init /\ [][Next]_vars

---------------------------------------------------------------------------
(* Claims about _call_and_parse (checked under SpecParse).                 *)

\* The document the payload is the text of.
PayloadDoc == json_loads(payload).value

\* C6: a response that does not yield a valid draft is never raised as an
\* error by _call_and_parse: it returns None.
C6_InvalidIsNone ==
    (pc = "parsed" /\ llm_script[1].ok /\ result.outcome # "draft")
        => result.outcome = "None"

\* The ideas elements of the parsed document that are objects with a
\* description key.
HasDescription(idea) == idea.t = "dict" /\ \E p \in idea.f : p.k = "description"
DescriptionOf(idea) == (CHOOSE p \in idea.f : p.k = "description").val

FenceOpenings ==
    { F, F \o TAG, F \o << Chunk(NL) >>, F \o TAG \o << Chunk(NL) >>,
      F \o TAG \o << Chunk(SP) >> }
FenceClosings == { F, << Chunk(NL) >> \o F }
IsFenced(text, J) ==
    \E open \in FenceOpenings, close \in FenceClosings : text = open \o J \o close

\* C8: a JSON text in a fenced code block gives the same result as the
\* JSON text alone: the same draft, or None as it does.
C8_FencedSameAsBare ==
    ( /\ pc = "parsed" /\ llm_script[1].ok /\ json_loads(payload).ok
      /\ IsFenced(llm_script[1].text, payload)
      /\ _call_and_parse(Answer(payload)).outcome \in {"draft", "None"} )
    => result = _call_and_parse(Answer(payload))

---------------------------------------------------------------------------
(* Claims about fetch_readme (checked under SpecReadme).                   *)

RECURSIVE rle_char(_, _)
rle_char(t, i) == IF i <= t[1].n THEN t[1].ch ELSE rle_char(Tail(t), i - t[1].n)

\* C9: a README of more than 20,000 characters comes back as its first
\* 20,000 characters followed by the truncation marker; one of at most
\* 20,000 characters comes back unmodified.
C9_Truncation ==
    (pc = "fetched" /\ content.present) =>
        /\ readme.present
        /\ rle_len(content.text) > 20000 =>
            /\ rle_len(readme.text) = 20000 + rle_len(TruncationMarker)
            /\ \A i \in 1..20000 :
                 rle_char(readme.text, i) = rle_char(content.text, i)
            /\ \A i \in 1..rle_len(TruncationMarker) :
                 rle_char(readme.text, 20000 + i) = rle_char(TruncationMarker, i)
        /\ rle_len(content.text) <= 20000 => readme.text = content.text

C9_Witness ==
    /\ pc = "fetched" /\ content.present
    /\ Len(content.text) = 2 /\ rle_len(content.text) = 20001
    /\ readme.text # content.text

---------------------------------------------------------------------------
(* Claims about fetch_trending_item (checked under SpecSelect).            *)

PoolIds(answer) ==
    { answer.models[i] : i \in 1..Len(answer.models) }
    \cup { answer.datasets[i] : i \in 1..Len(answer.datasets) }
BothAnswered == registry[1].ok /\ registry[2].ok

\* C1: an item that fetch_trending_item returns has an id outside
\* used_names; and when some id of the top-20 or top-50 lists is outside
\* used_names, an item is returned.
C1_SelectUnused ==
    pc = "selected" =>
        /\ metadata # NoItem => metadata.id \notin used_names
        /\ ( /\ BothAnswered
             /\ \E id \in PoolIds(registry[1]) \cup PoolIds(registry[2]) :
                    id \notin used_names )
           => (metadata # NoItem /\ error = "none")

C1_Witness ==
    /\ pc = "selected" /\ BothAnswered /\ metadata # NoItem
    /\ \E id \in PoolIds(registry[1]) : id \in used_names
    /\ \E id \in PoolIds(registry[1]) : id \notin used_names

\* C4: when every id of the top-20 lists and every id of the top-50 lists
\* is in used_names, fetch_trending_item raises RuntimeError after
\* querying at 20 and then at 50, and returns no item.
C4_Exhaustion ==
    ( /\ pc = "selected" /\ BothAnswered
      /\ PoolIds(registry[1]) \subseteq used_names
      /\ PoolIds(registry[2]) \subseteq used_names )
    => (error = "RuntimeError" /\ queries = << 20, 50 >> /\ metadata = NoItem)

C4_Witness ==
    /\ pc = "selected" /\ BothAnswered /\ error = "RuntimeError"
    /\ PoolIds(registry[1]) # {} /\ PoolIds(registry[2]) # {}
    /\ PoolIds(registry[2]) # PoolIds(registry[1])

\* C5: when every id of the top-20 lists is in used_names and the top-50
\* lists hold an id that is not, fetch_trending_item returns an item of the
\* top-50 lists; and the query at 50 is made only after the query at 20
\* left nothing unused.
C5_Widened ==
    pc = "selected" =>
        /\ ( /\ BothAnswered
             /\ PoolIds(registry[1]) \subseteq used_names
             /\ \E id \in PoolIds(registry[2]) : id \notin used_names )
           => /\ error = "none" /\ queries = << 20, 50 >>
              /\ \/ /\ metadata.type = "model"
                    /\ \E i \in 1..Len(registry[2].models) :
                           registry[2].models[i] = metadata.id
                 \/ /\ metadata.type = "dataset"
                    /\ \E i \in 1..Len(registry[2].datasets) :
                           registry[2].datasets[i] = metadata.id
        /\ Len(queries) >= 2
           => /\ queries[1] = 20 /\ queries[2] = 50
              /\ registry[1].ok /\ PoolIds(registry[1]) \subseteq used_names

C5_Witness ==
    /\ pc = "selected" /\ BothAnswered /\ error = "none"
    /\ PoolIds(registry[1]) # {} /\ PoolIds(registry[1]) \subseteq used_names
    /\ queries = << 20, 50 >> /\ metadata.id \notin PoolIds(registry[1])

---------------------------------------------------------------------------
(* Claims about generate_report and the runs (checked under Spec).         *)

\* The JSON documents a response holds: the one its text is, or the one
\* that its text fences.
Unfenced(t) ==
    { SubSeq(t, Len(open) + 1, Len(t) - Len(close)) :
        open \in { o \in FenceOpenings : Len(o) <= Len(t) /\ SubSeq(t, 1, Len(o)) = o },
        close \in { c \in FenceClosings :
                      Len(c) <= Len(t) /\ SubSeq(t, Len(t) - Len(c) + 1, Len(t)) = c } }
Held(text) ==
    { json_loads(J).value : J \in { K \in {strip(text)} \cup Unfenced(strip(text)) :
                                      json_loads(K).ok } }
Conformant(doc) ==
    /\ doc.kind = "dict" /\ RequiredKeys \subseteq doc.has
    /\ doc.ideas.kind = "list" /\ Len(doc.ideas.items) = 5

\* a response that is valid and schema-conformant
ValidResponse(a) == a.ok /\ \E d \in Held(a.text) : Conformant(d)
\* a response that does not parse as JSON
Unparseable(a) == a.ok /\ Held(a.text) = {}
\* a response of one of the invalid kinds: unparseable; an object without
\* title or summary, without ideas, with ideas that is no list or that has
\* not 5 elements
InvalidResponse(a) ==
    \/ Unparseable(a)
    \/ a.ok /\ \E d \in Held(a.text) : d.kind = "dict" /\ ~Conformant(d)

GenerateEnded == pc \in {"save", "saved", "failed"} /\ Len(llm_script) = 2

\* C2: after two invalid responses generate_report has raised ValueError
\* and has made exactly 2 calls; it never makes a third call.
C2_TwoInvalid ==
    /\ calls <= 2
    /\ ( GenerateEnded /\ InvalidResponse(llm_script[1]) /\ InvalidResponse(llm_script[2]) )
       => (pc = "failed" /\ error = "ValueError" /\ calls = 2)

\* C3: after a first response that does not parse as JSON and a second that
\* is valid, generate_report has returned the draft of the second response
\* with exactly 2 calls; attempt 2 starts only after attempt 1 gave None.
C3_RetrySucceeds ==
    /\ pc = "attempt2" => (calls = 1 /\ _call_and_parse(llm_script[1]).outcome = "None")
    /\ ( GenerateEnded /\ Unparseable(llm_script[1]) /\ ValidResponse(llm_script[2]) )
       => /\ error = "none" /\ calls = 2
          /\ result.outcome = "draft"
          /\ result.value \in { [d EXCEPT !.ideas.items = normalize_ideas(d.ideas.items)] :
                                  d \in Held(llm_script[2].text) }

\* C10: no two rows of the reports table have the same item_name, and a run
\* that has ended in an error has added no row.
C10_NoDuplicateReports ==
    /\ \A i, j \in 1..Len(reports) :
          i # j => reports[i].item_name # reports[j].item_name
    /\ pc = "failed" =>
          /\ { reports[i].item_name : i \in 1..Len(reports) } = used_names
          /\ Len(reports) = Cardinality(used_names)

C10_Witness ==
    /\ pc = "failed" /\ error = "ValueError" /\ Len(reports) = 2

===========================================================================
